---- MODULE Spec2Model ----
(***************************************************************************)
(* Model of scripts/04.bronze_layer.py: class Bronze, the bronze-layer     *)
(* ingestion driver (consume_*, consume) and its validator (assert_count,  *)
(* validate).                                                              *)
(*                                                                         *)
(* The state is what the methods read and write: the landing zone          *)
(* directories, the three bronze tables, the session's registry of active  *)
(* streaming queries (spark.streams.active) and, for the caller, how the   *)
(* last call of a Bronze method ended.                                     *)
(***************************************************************************)
EXTENDS Integers, Sequences, FiniteSets, Bags, TLC

VARIABLES landing, tables, streams, res

vars == <<landing, tables, streams, res>>

(***************************************************************************)
(* Bounds of the model.                                                    *)
(***************************************************************************)
\* number of data-generation sets (one file per source each) that may exist
MaxUnits == 2
\* largest argument given to validate
MaxSets == 3

Units == 1..MaxUnits

(***************************************************************************)
(* Names used by the class.                                                *)
(***************************************************************************)
\* landing directory = checkpoint directory = table name, lines 26/35/44,
\* 60/68/79, 97/109/116
Sources == {"registered_users_bz", "gym_logins_bz", "kafka_multiplex_bz"}

\* the methods class Bronze defines (def lines 7, 15, 49, 84, 120, 133, 139)
Methods ==
  {"__init__", "consume_user_registrations", "consume_gym_logins",
   "consume_kafka_multiplex", "consume", "assert_count", "validate"}

\* the public names of pyspark.sql.functions the class uses or asks for.  The
\* module exports functions (current_timestamp, input_file_name, ...); F is
\* the alias customarily given to the module, not a name inside it.
FunctionsExports ==
  {"current_timestamp", "input_file_name", "broadcast", "to_date", "col"}

\* the values the topic column takes in the multiplexed feed (lines 145-147)
Topics == {"user_info", "workout", "bpm"}

\* the filters the validator is called with (lines 133, 145-147)
Filters == {"true", "topic='user_info'", "topic='workout'", "topic='bpm'"}

ProcessingTimes == {"5 seconds", "1 minute"}

(***************************************************************************)
(* Python values that reach a comparison with True: a bool or a str.       *)
(***************************************************************************)
PyBool(b) == [ty |-> "bool", b |-> b, s |-> ""]
PyStr(s) == [ty |-> "str", b |-> FALSE, s |-> s]

\* `x == True` (lines 42, 77, 115): only the bool True equals True
EqTrue(x) == x.ty = "bool" /\ x.b

\* `if x:` (line 127): a bool is itself, a str is true unless empty
Truthy(x) == IF x.ty = "bool" THEN x.b ELSE x.s # ""

(***************************************************************************)
(* Tables: a bag of rows.  A row keeps the columns the validator and the   *)
(* claims talk about: source_file, and topic where the table has one.      *)
(***************************************************************************)
\* columns of each bronze table: the declared schema plus load_time and
\* source_file, and date/week_part from the join (lines 17, 51, 86-103)
Columns(t) ==
  CASE t = "registered_users_bz" ->
         {"user_id", "device_id", "mac_address", "registration_timestamp",
          "load_time", "source_file"}
    [] t = "gym_logins_bz" ->
         {"mac_address", "gym", "login", "logout", "load_time", "source_file"}
    [] t = "kafka_multiplex_bz" ->
         {"key", "value", "topic", "partition", "offset", "timestamp",
          "load_time", "source_file", "date", "week_part"}

\* rows of one data-generation set, per table and topic
RowsPerSet(t, tp) ==
  CASE t = "registered_users_bz" -> 5
    [] t = "gym_logins_bz" -> 8
    [] t = "kafka_multiplex_bz" /\ tp = "user_info" -> 7
    [] t = "kafka_multiplex_bz" /\ tp = "workout" -> 16
    [] t = "kafka_multiplex_bz" /\ tp = "bpm" -> 253801

\* the rows the file of set u holds for table t
UnitRows(t, u) ==
  IF "topic" \in Columns(t)
    THEN [r \in {[source_file |-> u, topic |-> tp] : tp \in Topics}
            |-> RowsPerSet(t, r.topic)]
    ELSE [r \in {[source_file |-> u]} |-> RowsPerSet(t, "")]

RECURSIVE LoadedSets(_, _)
\* table t holding the rows of sets 1..n, each once
LoadedSets(t, n) ==
  IF n = 0 THEN EmptyBag ELSE LoadedSets(t, n - 1) (+) UnitRows(t, n)

(***************************************************************************)
(* The validator: assert_count and validate (lines 133-148).               *)
(***************************************************************************)
\* a filter either is the default "true" or compares the topic column
FilterColumns(f) == IF f = "true" THEN {} ELSE {"topic"}

FilterValue(f) ==
  CASE f = "topic='user_info'" -> "user_info"
    [] f = "topic='workout'" -> "workout"
    [] f = "topic='bpm'" -> "bpm"

\* does row r pass `where(f)`
Satisfies(r, f) == f = "true" \/ r.topic = FilterValue(f)

\* `where(f)` is analysed against the table's columns before any row is read
Resolves(t, f) == FilterColumns(f) \subseteq Columns(t)

\* spark.read.table(t).where(f).count(), line 135, without the filter
CountAll(tbls, t, f) == BagCardinality(tbls[t])

\* spark.read.table(t).where(f).count(), line 135
CountWhere(tbls, t, f) ==
  LET B == tbls[t]
      keep == {r \in DOMAIN B : Satisfies(r, f)}
  IN  BagCardinality([r \in keep |-> B[r]])

\* one evaluation of assert_count(t, expected, f): what it read and how it
\* ended (line 135 raises when the filter names no column of the table,
\* line 136 raises when the counts differ, line 137 is the normal end)
AssertCount(tbls, t, expected, f) ==
  IF ~Resolves(t, f)
    THEN [outcome |-> "AnalysisException", line |-> 135, checks |-> <<>>]
    ELSE LET actual == CountWhere(tbls, t, f)
             chk == [table |-> t, filter |-> f,
                     expected |-> expected, actual |-> actual]
         IN  IF actual = expected
               THEN [outcome |-> "returned", line |-> 137, checks |-> <<chk>>]
               ELSE [outcome |-> "AssertionError", line |-> 136,
                     checks |-> <<chk>>]

\* the five expectations of validate(sets), in program order (lines 143-147)
Battery(sets) ==
  << [table |-> "registered_users_bz", filter |-> "true", line |-> 143,
      expected |-> IF sets = 1 THEN 5 ELSE 10],
     [table |-> "gym_logins_bz", filter |-> "true", line |-> 144,
      expected |-> IF sets = 1 THEN 8 ELSE 16],
     [table |-> "kafka_multiplex_bz", filter |-> "topic='user_info'",
      line |-> 145, expected |-> IF sets = 1 THEN 7 ELSE 13],
     [table |-> "kafka_multiplex_bz", filter |-> "topic='workout'",
      line |-> 146, expected |-> IF sets = 1 THEN 16 ELSE 32],
     [table |-> "kafka_multiplex_bz", filter |-> "topic='bpm'",
      line |-> 147, expected |-> sets * 253801] >>

RECURSIVE RunBatteryAll(_, _, _, _)
\* validate going on to the next expectation after one has failed, and
\* reporting the first failure at the end
RunBatteryAll(tbls, b, i, done) ==
  IF i > Len(b)
    THEN LET bad == {k \in 1..Len(done) :
                       done[k].actual # done[k].expected}
         IN  IF bad = {}
               THEN [outcome |-> "returned", line |-> 148, checks |-> done]
               ELSE [outcome |-> "AssertionError",
                     line |-> b[CHOOSE k \in bad : \A m \in bad : k <= m].line,
                     checks |-> done]
    ELSE LET r == AssertCount(tbls, b[i].table, b[i].expected, b[i].filter)
         IN  RunBatteryAll(tbls, b, i + 1, done \o r.checks)

RECURSIVE RunBattery(_, _, _, _)
\* the calls of assert_count from expectation i on; the first one that raises
\* ends validate, `done` holds the evaluations made so far
RunBattery(tbls, b, i, done) ==
  IF i > Len(b)
    THEN [outcome |-> "returned", line |-> 148, checks |-> done]
    ELSE LET r == AssertCount(tbls, b[i].table, b[i].expected, b[i].filter)
         IN  IF r.outcome = "returned"
               THEN RunBattery(tbls, b, i + 1, done \o r.checks)
               ELSE [outcome |-> r.outcome, line |-> b[i].line,
                     checks |-> done \o r.checks]

\* validate(sets), lines 139-148
ValidateRun(tbls, sets) == RunBattery(tbls, Battery(sets), 1, <<>>)

(***************************************************************************)
(* The three stream launchers (lines 15-118).  Each either raises before   *)
(* any query exists or registers one streaming query with the session.     *)
(***************************************************************************)
\* trigger(availableNow=True) or trigger(processingTime=...), lines 42-47,
\* 77-82, 115-118; `once` is whatever value the caller bound to it
TriggerOf(once, processing_time) ==
  IF EqTrue(once)
    THEN [kind |-> "availableNow", interval |-> ""]
    ELSE [kind |-> "processingTime", interval |-> processing_time]

\* the directory under landing_zone each reader loads (lines 26, 60, 97)
InputDir(s) ==
  CASE s = "registered_users_bz" -> "registered_users_bz"
    [] s = "gym_logins_bz" -> "gym_logins_bz"
    [] s = "kafka_multiplex_bz" -> "kafka_multiplex_bz"

\* every writer keeping its progress under the first writer's directory
CheckpointDirShared(s) == "registered_users_bz"

\* the directory under checkpoint_base each writer keeps its progress in
\* (option checkpointLocation, lines 35, 68, 109)
CheckpointDir(s) ==
  CASE s = "registered_users_bz" -> "registered_users_bz"
    [] s = "gym_logins_bz" -> "gym_logins_bz"
    [] s = "kafka_multiplex_bz" -> "kafka_multiplex_bz"

\* the table each writer appends to (toTable, lines 44/47, 79/82, 116/118)
TableName(s) ==
  CASE s = "registered_users_bz" -> "registered_users_bz"
    [] s = "gym_logins_bz" -> "gym_logins_bz"
    [] s = "kafka_multiplex_bz" -> "kafka_multiplex_bz"

\* queryName, lines 37, 70, 111
QueryName(s) ==
  CASE s = "registered_users_bz" -> "registered_users_bz_ingestion_stream"
    [] s = "gym_logins_bz" -> "gym_logins_bz_ingestion_stream"
    [] s = "kafka_multiplex_bz" -> "kafka_multiplex_bz_ingestion_stream"

\* the query writeStream...toTable registers for source s: it reads
\* landing_zone/InputDir, keeps its progress in checkpoint_base/CheckpointDir
\* and appends to TableName (lines 26-47, 60-82, 97-118)
Query(s, once, processing_time) ==
  [name |-> QueryName(s), input |-> InputDir(s),
   checkpointLocation |-> CheckpointDir(s), table |-> TableName(s),
   outputMode |-> "append", trigger |-> TriggerOf(once, processing_time)]

Raised(exc, ln) == [outcome |-> exc, line |-> ln, started |-> {}]

\* `from pyspark.sql.functions import F`, lines 16, 50 and 85
ImportsF == "F" \in FunctionsExports

\* number of arguments DataStreamReader.option takes (key, value)
OptionArity == 2
\* number of arguments line 22 gives it: `. option(schema)`
OptionArgsLine22 == 1

\* consume_user_registrations(once, processing_time), lines 15-47
ConsumeUserRegistrations(once, processing_time) ==
  IF ~ImportsF THEN Raised("ImportError", 16)
  ELSE IF OptionArgsLine22 # OptionArity THEN Raised("TypeError", 22)
  ELSE [outcome |-> "returned", line |-> 47,
        started |-> {Query("registered_users_bz", once, processing_time)}]

\* consume_gym_logins(once, processing_time), lines 49-82
ConsumeGymLogins(once, processing_time) ==
  IF ~ImportsF THEN Raised("ImportError", 50)
  ELSE [outcome |-> "returned", line |-> 82,
        started |-> {Query("gym_logins_bz", once, processing_time)}]

\* consume_kafka_multiplex(topic, once, processing_time), lines 84-118; topic
\* is not used by the body
ConsumeKafkaMultiplex(topic, once, processing_time) ==
  IF ~ImportsF THEN Raised("ImportError", 85)
  ELSE [outcome |-> "returned", line |-> 118,
        started |-> {Query("kafka_multiplex_bz", once, processing_time)}]

(***************************************************************************)
(* consume(once, processing_time), lines 120-130.                          *)
(***************************************************************************)
\* the call of line 124: a method of that name, or AttributeError
CallLine124(once, processing_time) ==
  IF "consume_user_registration" \in Methods
    THEN ConsumeUserRegistrations(once, processing_time)
    ELSE Raised("AttributeError", 124)

\* the call of line 125
CallLine125(once, processing_time) == ConsumeGymLogins(once, processing_time)

\* the call of line 126 gives two positional arguments to a method that
\* takes (topic, once, processing_time): once lands in topic, processing_time
\* in once, and processing_time keeps its default
CallLine126(once, processing_time) ==
  ConsumeKafkaMultiplex(once, PyStr(processing_time), "5 seconds")

\* the queries the calls of lines 124-126 ask for: the writer each launcher
\* configures (lines 32-47, 65-82, 107-118) with the arguments the call binds
LaunchPlan(once, processing_time) ==
  { Query("registered_users_bz", once, processing_time),
    Query("gym_logins_bz", once, processing_time),
    Query("kafka_multiplex_bz", PyStr(processing_time), "5 seconds") }

\* lines 127-129: in finite mode awaitTermination on every query of
\* spark.streams.active, the session's registry, which holds the queries
\* this call started and those that were active before it
WaitSet(active, once, started) ==
  IF Truthy(once) THEN active \cup started ELSE {}

\* consume: the three calls in order, the first exception ends it; then, in
\* finite mode, awaitTermination on every query of spark.streams.active
ConsumeRun(active, once, processing_time) ==
  LET r1 == CallLine124(once, processing_time)
      r2 == CallLine125(once, processing_time)
      r3 == CallLine126(once, processing_time)
      none == [waits |-> {}]
  IN  IF r1.outcome # "returned" THEN r1 @@ none
      ELSE IF r2.outcome # "returned"
        THEN [r2 EXCEPT !.started = r1.started] @@ none
      ELSE IF r3.outcome # "returned"
        THEN [r3 EXCEPT !.started = r1.started \cup r2.started] @@ none
      ELSE LET all == r1.started \cup r2.started \cup r3.started
               waits == WaitSet(active, once, all)
           IN  IF waits # {}
                 THEN [outcome |-> "awaitTermination", line |-> 129,
                       started |-> all, waits |-> waits]
                 ELSE [outcome |-> "returned", line |-> 130, started |-> all,
                       waits |-> waits]

(***************************************************************************)
(* State and actions.                                                      *)
(***************************************************************************)
\* how a call ended, as its caller sees it
Call(op, once, processing_time, table, filter, expected, sets, r) ==
  [op |-> op, once |-> once, processing_time |-> processing_time,
   table |-> table, filter |-> filter, expected |-> expected, sets |-> sets,
   outcome |-> r.outcome, line |-> r.line, checks |-> r.checks,
   started |-> r.started, seen |-> r.seen, waits |-> r.waits]

\* no file of any source
NoFiles == [s \in Sources |-> {}]

NoCall ==
  Call("none", FALSE, "", "", "", 0, 0,
       [outcome |-> "none", line |-> 0, checks |-> <<>>, started |-> {},
        seen |-> NoFiles, waits |-> {}])

\* a launcher's or consume's result: the queries it started, those it waits
\* on and, for consume, the files that were in the landing zone when it was
\* called; no validator evaluation
Ingest(r, files) ==
  [outcome |-> r.outcome, line |-> r.line, checks |-> <<>>,
   started |-> r.started, seen |-> files, waits |-> r.waits]

\* a validator call's result: it starts no query and lists no directory
Checked(r) ==
  [outcome |-> r.outcome, line |-> r.line, checks |-> r.checks,
   started |-> {}, seen |-> NoFiles, waits |-> {}]

\* the expected counts assert_count is tried with
ExpectedInputs ==
  {0} \cup {Battery(m)[i].expected : m \in 1..MaxSets, i \in 1..5}
      \cup {BagCardinality(LoadedSets(t, n)) : t \in Sources, n \in Units}

\* the expected counts assert_count is tried with beside the other methods:
\* none, and the counts of one set
ExpectedFew == {0} \cup {Battery(1)[i].expected : i \in 1..5}

\* Bronze(env) constructed (lines 7-13): nothing is in flight; the landing
\* zone is empty and every table holds the sets loaded so far
Init ==
  /\ landing = NoFiles
  /\ \E n \in 0..MaxUnits : tables = [t \in Sources |-> LoadedSets(t, n)]
  /\ streams = {}
  /\ res = NoCall

\* the file of the next data-generation set lands in source s's directory
FileArrives(s) ==
  /\ Cardinality(landing[s]) < MaxUnits
  /\ landing' = [landing EXCEPT ![s] = @ \cup {Cardinality(@) + 1}]
  /\ UNCHANGED <<tables, streams, res>>

\* a call of consume(once, processing_time)
Consume(once, processing_time) ==
  LET r == ConsumeRun(streams, PyBool(once), processing_time)
  IN  /\ res' = Call("consume", once, processing_time, "", "", 0, 0,
                     Ingest(r, landing))
      /\ streams' = streams \cup r.started
      /\ UNCHANGED <<landing, tables>>

\* a direct call of one of the three launchers
Launch(s, once, processing_time) ==
  LET r == CASE s = "registered_users_bz" ->
                  ConsumeUserRegistrations(PyBool(once), processing_time)
             [] s = "gym_logins_bz" ->
                  ConsumeGymLogins(PyBool(once), processing_time)
             [] s = "kafka_multiplex_bz" ->
                  ConsumeKafkaMultiplex(PyStr("bpm"), PyBool(once),
                                        processing_time)
  IN  /\ res' = Call("consume_" \o s, once, processing_time, "", "", 0, 0,
                     Ingest(r @@ [waits |-> {}], NoFiles))
      /\ streams' = streams \cup r.started
      /\ UNCHANGED <<landing, tables>>

\* a call of assert_count(t, expected, f)
AssertCountCall(t, expected, f) ==
  /\ res' = Call("assert_count", FALSE, "", t, f, expected, 0,
                 Checked(AssertCount(tables, t, expected, f)))
  /\ UNCHANGED <<landing, tables, streams>>

\* validate(sets) undoing the load when an expectation fails
ValidateRollingBack(sets) ==
  LET r == ValidateRun(tables, sets)
  IN  /\ res' = Call("validate", FALSE, "", "", "", 0, sets, Checked(r))
      /\ tables' = IF r.outcome = "returned" THEN tables
                   ELSE [t \in Sources |-> EmptyBag]
      /\ UNCHANGED <<landing, streams>>

\* a call of validate(sets)
Validate(sets) ==
  /\ res' = Call("validate", FALSE, "", "", "", 0, sets,
                 Checked(ValidateRun(tables, sets)))
  /\ UNCHANGED <<landing, tables, streams>>

Next ==
  \/ \E s \in Sources : FileArrives(s)
  \/ \E once \in BOOLEAN, pt \in ProcessingTimes : Consume(once, pt)
  \/ \E s \in Sources, once \in BOOLEAN, pt \in ProcessingTimes :
       Launch(s, once, pt)
  \/ \E t \in Sources, e \in ExpectedFew, f \in Filters :
       AssertCountCall(t, e, f)
  \/ \E m \in 1..MaxSets : Validate(m)

Spec == Init /\ [][Next]_vars

(***************************************************************************)
(* The validator alone, over tables loaded independently of each other.    *)
(***************************************************************************)
InitValidator ==
  /\ landing = NoFiles
  /\ \E n \in [Sources -> 0..MaxUnits] :
       tables = [t \in Sources |-> LoadedSets(t, n[t])]
  /\ streams = {}
  /\ res = NoCall

NextValidator ==
  \/ \E t \in Sources, e \in ExpectedInputs, f \in Filters :
       AssertCountCall(t, e, f)
  \/ \E m \in 1..MaxSets : Validate(m)

SpecValidator == InitValidator /\ [][NextValidator]_vars

(***************************************************************************)
(* The launch plan and the wait loop as functions of their inputs: what    *)
(* the statements of lines 32-47, 65-82, 107-118 and 124-129 ask of the    *)
(* session, over the queries the session may already hold.                 *)
(***************************************************************************)
\* queries a session may hold from an earlier continuous-mode launch
PriorQueries ==
  {Query(s, PyBool(FALSE), pt) : s \in Sources, pt \in ProcessingTimes}

\* a session holds at most one active query of a name
InitPlan ==
  /\ landing = NoFiles
  /\ tables = [t \in Sources |-> EmptyBag]
  /\ streams \in {Q \in SUBSET PriorQueries :
                    \A q1, q2 \in Q : q1.name = q2.name => q1 = q2}
  /\ res = NoCall

\* the writer of source s for the arguments (once, processing_time)
ApplyQuery(s, once, processing_time) ==
  /\ res' = Call("writer", once, processing_time, "", "", 0, 0,
                 [outcome |-> "planned", line |-> 47, checks |-> <<>>,
                  started |-> {Query(s, PyBool(once), processing_time)},
                  seen |-> NoFiles, waits |-> {}])
  /\ UNCHANGED <<landing, tables, streams>>

\* the three launch calls and the wait loop of consume(once, processing_time)
ApplyLaunchPlan(once, processing_time) ==
  LET started == LaunchPlan(PyBool(once), processing_time)
  IN  /\ res' = Call("launch_plan", once, processing_time, "", "", 0, 0,
                     [outcome |-> "planned", line |-> 129, checks |-> <<>>,
                      started |-> started, seen |-> NoFiles,
                      waits |-> WaitSet(streams, PyBool(once), started)])
      /\ UNCHANGED <<landing, tables, streams>>

NextPlan ==
  \/ \E s \in Sources, once \in BOOLEAN, pt \in ProcessingTimes :
       ApplyQuery(s, once, pt)
  \/ \E once \in BOOLEAN, pt \in ProcessingTimes : ApplyLaunchPlan(once, pt)

SpecPlan == InitPlan /\ [][NextPlan]_vars

(***************************************************************************)
(* Properties.                                                             *)
(***************************************************************************)
\* the rows of the file of set u are in table t at least once
Committed(t, u) ==
  \A r \in DOMAIN UnitRows(t, u) : CopiesIn(r, tables[t]) >= UnitRows(t, u)[r]

\* the rows of the file of set u are in table t exactly once
CommittedOnce(t, u) ==
  \A r \in DOMAIN UnitRows(t, u) : CopiesIn(r, tables[t]) = UnitRows(t, u)[r]

\* the last call was consume in finite mode and control is back at the caller
FiniteConsumeOver == res.op = "consume" /\ res.once

\* C1: a finite-mode consume call ends by returning normally, with the backlog
\* of every source drained into its table and no pipeline left running.
C1_FiniteConsumeReturns ==
  FiniteConsumeOver =>
    /\ res.outcome = "returned"
    /\ \A s \in Sources : \A u \in res.seen[s] : Committed(s, u)
    /\ \A q \in streams : q.trigger.kind # "processingTime"

C3_OnePipelinePerSource ==
  res.op = "consume" =>
    \A s \in Sources :
      /\ Cardinality({q \in res.started : q.input = s}) = 1
      /\ \A q \in res.started : q.input = s => q.table = s

OnlySetOne ==
  \A t \in Sources : \A r \in DOMAIN tables[t] : r.source_file = 1

OneSetCounts == <<5, 8, 7, 16, 253801>>

\* C8: every expected count validate(m) hands to assert_count is m times the
\* one-set count of that expectation.
C8_ExpectedScaled ==
  res.op = "validate" =>
    \A i \in 1..Len(res.checks) :
      res.checks[i].expected = res.sets * OneSetCounts[i]

RECURSIVE SumCopies(_, _)
\* number of rows of bag B over the row values S
SumCopies(B, S) ==
  IF S = {} THEN 0
  ELSE LET r == CHOOSE x \in S : TRUE IN B[r] + SumCopies(B, S \ {r})

\* committed rows of table t whose topic is tp
RowsOfTopic(t, tp) ==
  SumCopies(tables[t], {r \in DOMAIN tables[t] : r.topic = tp})

\* all committed rows of table t
RowsOf(t) == SumCopies(tables[t], DOMAIN tables[t])

\* committed rows of table t that satisfy filter f, a predicate over t's columns
RowsSatisfying(t, f) ==
  CASE f = "true" -> RowsOf(t)
    [] f = "topic='user_info'" -> RowsOfTopic(t, "user_info")
    [] f = "topic='workout'" -> RowsOfTopic(t, "workout")
    [] f = "topic='bpm'" -> RowsOfTopic(t, "bpm")

\* C9: assert_count(table, expected, filter), filter a predicate over the
\* table's columns, ends with the count-mismatch AssertionError exactly when
\* the number of committed rows satisfying the filter differs from expected
\* and returns normally exactly when they are equal; the count it reports is
\* that number, which under the default filter "true" is every row.
C9_AssertCountIff ==
  (res.op = "assert_count" /\ Resolves(res.table, res.filter)) =>
    LET n == RowsSatisfying(res.table, res.filter)
    IN  /\ res.outcome = "AssertionError" <=> n # res.expected
        /\ res.outcome = "returned" <=> n = res.expected
        /\ res.checks[1].actual = n
        /\ res.filter = "true" => res.checks[1].actual = RowsOf(res.table)

\* C9 witness: assert_count, counting the workout rows of a table that holds
\* two sets of rows of all three topics, met the expectation of one set
C9_Witness ==
  /\ res.op = "assert_count"
  /\ res.table = "kafka_multiplex_bz"
  /\ res.filter = "topic='workout'"
  /\ res.outcome = "AssertionError"
  /\ res.checks[1].actual = 32
  /\ res.expected = 16

\* C10: when a finite-mode consume call ends with an error, at most one
\* pipeline is the failed one: every other pipeline has reached Quiescent,
\* its backlog committed, before the error reaches the caller.
C10_OthersQuiescentOnFailure ==
  (FiniteConsumeOver /\ res.outcome # "returned") =>
    \E failed \in Sources :
      \A s \in Sources \ {failed} : \A u \in res.seen[s] : Committed(s, u)

\* the last call was consume in continuous mode and control is back at the
\* caller
ContinuousConsumeOver == res.op = "consume" /\ ~res.once

\* C11: a continuous-mode consume call returns normally without waiting on
\* any query, leaving for each of the three sources one query that polls at
\* the interval the call was given.
C11_ContinuousReturnsAtOnce ==
  ContinuousConsumeOver =>
    /\ res.outcome = "returned"
    /\ res.waits = {}
    /\ \A s \in Sources :
         \E q \in streams :
           /\ q.input = s
           /\ q.trigger = [kind |-> "processingTime",
                           interval |-> res.processing_time]

\* every row of bag A is in bag B at least as often
Keeps(A, B) == \A r \in DOMAIN A : CopiesIn(r, B) >= A[r]

\* the step is a call of assert_count or validate coming back to the caller
ValidatorStep == res' # res /\ res'.op \in {"assert_count", "validate"}

\* C12: no step of the program (consume, a launcher, validate, assert_count)
\* or of its environment removes or changes a committed row of any table,
\* and a call of validate or assert_count, passing or failing, leaves every
\* table, the landing zone and the session's queries as they were.
C12_AppendOnly ==
  [][ /\ \A t \in Sources : Keeps(tables[t], tables'[t])
      /\ ValidatorStep =>
           (tables' = tables /\ landing' = landing /\ streams' = streams)
    ]_vars

\* C12 witness: validate failed on tables that hold rows, after files had
\* arrived, and every table still holds the two loaded sets
C12_Witness ==
  /\ res.op = "validate"
  /\ res.outcome = "AssertionError"
  /\ landing["gym_logins_bz"] # {}
  /\ \A t \in Sources : tables[t] = LoadedSets(t, 2)

(***************************************************************************)
(* C13: the pipelines that one consume call launches (lines 124-126) have  *)
(* three pairwise distinct checkpoint locations and three pairwise         *)
(* distinct destination tables, whatever the mode and the interval, and    *)
(* each writes the checkpoint and the table of its own source; so no two   *)
(* of them write the same table or the same checkpoint.                    *)
(***************************************************************************)
OwnsItsSink(q) ==
  \E s \in Sources :
    /\ q.checkpointLocation = CheckpointDir(s)
    /\ q.table = TableName(s)
    /\ q.input = InputDir(s)

Disjoint(q1, q2) ==
  /\ q1.checkpointLocation # q2.checkpointLocation
  /\ q1.table # q2.table

CsvSources == {"registered_users_bz", "gym_logins_bz"}

\* the option(key, value) calls of the reader of source s
ReaderOptions(s) ==
  IF s \in CsvSources
    THEN ("maxFileTrigger" :> "1") @@ ("cloudFiles.format" :> "csv")
           @@ ("header" :> "True")
    ELSE ("maxFileTrigger" :> "1") @@ ("cloudFiles.format" :> "json")

\* the reader of source s is told to drop a record it cannot parse
DropsMalformed(s) ==
  /\ "mode" \in DOMAIN ReaderOptions(s)
  /\ ReaderOptions(s)["mode"] = "DROPMALFORMED"

\* C14: a record with a field that cannot be cast to its declared type is
\* dropped by the CSV reader and the pipeline goes on: once a finite-mode
\* consume call is over it was not aborted, and every valid record of every
\* unit of the two CSV sources is in its table.
C14_SchemaRejection ==
  FiniteConsumeOver =>
    /\ res.outcome = "returned"
    /\ \A s \in CsvSources :
         /\ DropsMalformed(s)
         /\ \A u \in res.seen[s] : Committed(s, u)

\* how the multiplexed stream is joined to date_lookup (lines 101-103)
JoinHow == "left"

\* the columns the join adds to a multiplexed record (line 88)
LookupColumns == {"date", "week_part"}

\* C15: every record of the multiplexed source is committed to
\* kafka_multiplex_bz, with the lookup's date and week_part where the day of
\* its timestamp has a row there and with nulls where it has none: the join
\* keeps every record of the stream, and once a finite-mode consume call is
\* over every record of every unit of the source is in the table.
C15_EnrichmentLeftJoin ==
  FiniteConsumeOver =>
    /\ JoinHow = "left"
    /\ LookupColumns \subseteq Columns("kafka_multiplex_bz")
    /\ \A u \in res.seen["kafka_multiplex_bz"] :
         Committed("kafka_multiplex_bz", u)

\* the trigger a pipeline has when it runs in the mode (once, processing_time)
ModeTrigger(once, processing_time) ==
  IF once THEN [kind |-> "availableNow", interval |-> ""]
          ELSE [kind |-> "processingTime", interval |-> processing_time]

BatteryOrder ==
  << <<"registered_users_bz", "true">>,
     <<"gym_logins_bz", "true">>,
     <<"kafka_multiplex_bz", "topic='user_info'">>,
     <<"kafka_multiplex_bz", "topic='workout'">>,
     <<"kafka_multiplex_bz", "topic='bpm'">> >>

\* evaluation k of the last call matched its expected count
Matched(k) == res.checks[k].actual = res.checks[k].expected

====
